---- MODULE Spec2Model ----
(***************************************************************************)
(* matterbridge-to-webhook: the relay pipeline of main.go.                 *)
(*                                                                         *)
(* Two goroutines joined by one unbuffered channel:                        *)
(*   - run / backoff.RetryNotify / getMessages  (supervisor and reader)    *)
(*   - processMessages                          (forwarding worker)        *)
(*                                                                         *)
(* Strings are sequences of one-character strings, so that                 *)
(* strings.HasPrefix is computed and not assumed.  Durations are in        *)
(* milliseconds (Go holds nanoseconds).                                    *)
(***************************************************************************)
EXTENDS Integers, Sequences, FiniteSets, TLC

VARIABLES
    cfg,        \* the environment read by run: apiUrl, webhookUrl, messagePrefix
    pc,         \* position of the main goroutine (run, RetryNotify, getMessages)
    wpc,        \* position of the processMessages goroutine
    rmsg,       \* msg of getMessages, the value offered on the channel
    wmsg,       \* msg of processMessages
    b,          \* the ExponentialBackOff: currentInterval and time since startTime
    timer,      \* the delay RetryNotify is waiting for
    metrics,    \* the four counters of Metrics
    runErr,     \* what run returned ("" while it has not returned)
    exitCode,   \* the exit code of the process (-1 while it runs)
    lines,      \* history: the lines ReadBytes returned without an error, in order
    partial,    \* history: the bytes the last failed ReadBytes returned
    sent,       \* history: the messages the reader offered on the channel, in order
    taken,      \* history: the messages the worker received, in order
    handled,    \* history: per message the worker finished, its outcome
    posts,      \* history: the POSTs handed to http.DefaultClient.Do, in order
    notified,   \* history: the delays passed to notify since the last b.Reset(),
                \* each with the currentInterval it was drawn from and the
                \* number of lines read up to then
    calls,      \* history: the number of calls of getMessages
    status,     \* history: how the last http.DefaultClient.Do of the worker ended
    wErrors,    \* history: processingError increments made by the worker
    linesLeft,  \* budget of stream lines still to be served
    callsLeft   \* budget of getMessages calls still to be made

vars == <<cfg, partial, pc, wpc, rmsg, wmsg, b, timer, metrics, runErr, exitCode,
          lines, sent, taken, handled, posts, notified, calls, wErrors,
          status, linesLeft, callsLeft>>

-----------------------------------------------------------------------------
(* Bounds of the model.                                                    *)

\* stream lines served over all connections in the pipeline specification
MaxLines == 3
\* calls of getMessages in the pipeline specification
MaxCalls == 2
\* calls of getMessages in the supervisor specification
MaxFailures == 14
\* how long a connect or a read may block: a stream that stays silent
LongStall == 900000

-----------------------------------------------------------------------------
(* Strings and the Message struct.                                         *)

EmptyString == <<>>

\* the byte sequence that is not valid UTF-8, and U+FFFD
InvalidByte == "\\xff"
ReplacementChar == "\\ufffd"

MessageFields == {"text", "username", "event"}

\* Message{}: every field the empty string
ZeroMessage == [k \in MessageFields |-> EmptyString]

HasPrefixAlways(s, prefix) == TRUE
\* strings.HasPrefix
HasPrefix(s, prefix) ==
    /\ Len(s) >= Len(prefix)
    /\ SubSeq(s, 1, Len(prefix)) = prefix

\* encoding/json replaces invalid UTF-8 by U+FFFD, decoding and encoding
CoerceUTF8(s) ==
    [i \in 1..Len(s) |-> IF s[i] = InvalidByte THEN ReplacementChar ELSE s[i]]

-----------------------------------------------------------------------------
(* The stream: what reader.ReadBytes('\n') returns.                        *)

\* a line is its JSON content: valid or not, and the keys of the object
ChatBang == [valid |-> TRUE,
             obj |-> [text |-> <<"!", "a">>, username |-> <<"u">>]]
ChatPlain == [valid |-> TRUE,
              obj |-> [text |-> <<"b", InvalidByte>>, event |-> EmptyString]]
EventJoin == [valid |-> TRUE,
              obj |-> [text |-> <<"!", "a">>, event |-> <<"j", "o", "i", "n">>]]
Garbage == [valid |-> FALSE, obj |-> [text |-> <<"{">>]]

StreamLines == {ChatBang, ChatPlain, EventJoin, Garbage}

\* the bytes a broken stream may leave after its last newline
NoData == [valid |-> FALSE, obj |-> [text |-> EmptyString]]
PartialData == {NoData, ChatBang}

UnmarshalFailsNever(line) == FALSE
\* json.Unmarshal(line, &msg): the error
UnmarshalFails(line) == ~line.valid

\* json.Unmarshal(line, &msg): msg afterwards, starting from Message{}
Unmarshal(line) ==
    [k \in MessageFields |->
        IF k \in DOMAIN line.obj THEN CoerceUTF8(line.obj[k]) ELSE ZeroMessage[k]]

IsEventNever(msg) == FALSE
\* msg.Event != ""
IsEvent(msg) == msg.event # EmptyString

\* the text field is lost on the way out
MarshalNoText(msg) == << [msg EXCEPT !.text = EmptyString] >>
\* json.Marshal([]Message{msg}): an array of one object with every field.
\* It cannot fail on a struct of strings.
Marshal(msg) == << [k \in MessageFields |-> CoerceUTF8(msg[k])] >>

MarshalFails(msg) == FALSE

-----------------------------------------------------------------------------
(* URLs.                                                                   *)

GoodUrl == "http://host"
BadUrl == "http://[host"
Urls == {"", GoodUrl, BadUrl}

\* url.Parse, as used by url.JoinPath and http.NewRequest: the error
ParseFails(u) == u = BadUrl

\* the messagePrefix values tried
Prefixes == {EmptyString, <<"!">>}

-----------------------------------------------------------------------------
(* backoff.ExponentialBackOff with the settings of NewExponentialBackOff,  *)
(* as github.com/cenkalti/backoff/v4 (imported by main.go) defines them:   *)
(* initial interval 500 ms, multiplier 1.5, randomization factor 0.5,      *)
(* maximum interval 60 s, maximum elapsed time 15 min.                     *)

DefaultInitialInterval == 500
DefaultMaxInterval == 60000
DefaultMaxElapsedTime == 900000
\* DefaultMultiplier 1.5 and DefaultRandomizationFactor 0.5 as fractions
MultiplierNum == 3
MultiplierDen == 2
RandomizationNum == 1
RandomizationDen == 2

\* rand.Float64() in [0, 1), as thousandths
RandScale == 1000
RandomSamples == {0, RandScale - 1}

\* backoff.Stop
Stop == -1

\* elapsed time is kept up to the first value past MaxElapsedTime:
\* NextBackOff answers Stop for every value beyond
ElapsedCap == DefaultMaxElapsedTime + 1

Min(x, y) == IF x < y THEN x ELSE y

\* the clock moves on by d
Advance(bo, d) == [bo EXCEPT !.elapsed = Min(bo.elapsed + d, ElapsedCap)]

ResetKeeps(bo) == bo
\* (*ExponentialBackOff).Reset: currentInterval = InitialInterval, startTime = now
Reset(bo) == [currentInterval |-> DefaultInitialInterval, elapsed |-> 0]

\* NewExponentialBackOff(): the defaults, current interval and start time set
NewExponentialBackOff ==
    [currentInterval |-> DefaultInitialInterval, elapsed |-> 0]

\* getRandomValueFromInterval(RandomizationFactor, random, currentInterval):
\*   delta = factor * cur; min = cur - delta; max = cur + delta;
\*   min + random * (max - min + 1), truncated
getRandomValueFromInterval(random, currentInterval) ==
    LET num == RandomizationNum
        den == RandomizationDen
        \* min and (max - min + 1), both times den
        minD == currentInterval * (den - num)
        spanD == 2 * num * currentInterval + den
    IN  (minD * RandScale + random * spanD) \div (den * RandScale)

incrementNoCap(currentInterval) ==
    (currentInterval * MultiplierNum) \div MultiplierDen
\* (*ExponentialBackOff).incrementCurrentInterval: the new currentInterval
incrementCurrentInterval(currentInterval) ==
    IF currentInterval * MultiplierNum >= DefaultMaxInterval * MultiplierDen
    THEN DefaultMaxInterval
    ELSE (currentInterval * MultiplierNum) \div MultiplierDen

\* (*ExponentialBackOff).NextBackOff: the delay returned and b afterwards
NextBackOff(bo, random) ==
    LET next == getRandomValueFromInterval(random, bo.currentInterval)
        after == [bo EXCEPT !.currentInterval = incrementCurrentInterval(@)]
    IN  [delay |-> IF DefaultMaxElapsedTime # 0
                      /\ bo.elapsed + next > DefaultMaxElapsedTime
                   THEN Stop ELSE next,
         bo |-> after]

-----------------------------------------------------------------------------
(* The errors run returns.                                                 *)

ConfigError == "the api and webhook urls must be set"
TelemetryError == "setupOTelSdk"
\* a backoff.Permanent error of getMessages, as RetryNotify returns it
PermanentError == "failed to get messages: failed to build url"
\* a transient error of getMessages, returned when NextBackOff says Stop
TransientError == "failed to get messages: failed to read messages"

-----------------------------------------------------------------------------
(* Initial states.                                                         *)

Configs == [apiUrl : Urls, webhookUrl : Urls, messagePrefix : Prefixes]

\* how long one blocking call (connect, ReadBytes) takes
OpDurations == {0, LongStall}

ZeroMetrics ==
    [messageReceived |-> 0, messageForwarded |-> 0,
     messageDropped |-> 0, processingError |-> 0]

InitWith(configs, nLines, nCalls) ==
    /\ cfg \in configs
    /\ pc = "run"
    /\ wpc = "none"
    /\ rmsg = ZeroMessage
    /\ wmsg = ZeroMessage
    /\ b = [currentInterval |-> 0, elapsed |-> 0]
    /\ timer = 0
    /\ metrics = ZeroMetrics
    /\ runErr = ""
    /\ exitCode = -1
    /\ lines = <<>>
    /\ partial = NoData
    /\ sent = <<>>
    /\ taken = <<>>
    /\ handled = <<>>
    /\ posts = <<>>
    /\ notified = <<>>
    /\ calls = 0
    /\ wErrors = 0
    /\ status = ""
    /\ linesLeft = nLines
    /\ callsLeft = nCalls

Init == InitWith(Configs, MaxLines, MaxCalls)

Running == exitCode = -1

-----------------------------------------------------------------------------
(* run: configuration, the worker goroutine, backoff.RetryNotify.          *)

\* apiUrl == "" || webhookUrl == "": run returns the error
runConfigError ==
    /\ pc = "run"
    /\ cfg.apiUrl = "" \/ cfg.webhookUrl = ""
    /\ runErr' = ConfigError
    /\ pc' = "returned"
    /\ UNCHANGED <<cfg, partial, status, wpc, rmsg, wmsg, b, timer, metrics, exitCode, lines,
                   sent, taken, handled, posts, notified, calls, wErrors,
                   linesLeft, callsLeft>>

\* enableTelemetry and setupOTelSdk fails: run returns its error
runTelemetryError ==
    /\ pc = "run"
    /\ cfg.apiUrl # "" /\ cfg.webhookUrl # ""
    /\ runErr' = TelemetryError
    /\ pc' = "returned"
    /\ UNCHANGED <<cfg, partial, status, wpc, rmsg, wmsg, b, timer, metrics, exitCode, lines,
                   sent, taken, handled, posts, notified, calls, wErrors,
                   linesLeft, callsLeft>>

\* the pipeline starts unless both URLs are missing
runStartOneUrl ==
    /\ pc = "run"
    /\ ~(cfg.apiUrl = "" /\ cfg.webhookUrl = "")
    /\ wpc' = "recv"
    /\ b' = Reset(NewExponentialBackOff)
    /\ pc' = "operation"
    /\ UNCHANGED <<cfg, partial, status, rmsg, wmsg, timer, metrics, runErr,
                   exitCode, lines, sent, taken, handled, posts, notified,
                   calls, wErrors, linesLeft, callsLeft>>

\* make(chan Message); go processMessages(...); NewExponentialBackOff();
\* RetryNotify: b.Reset(), then the loop
runStart ==
    /\ pc = "run"
    /\ cfg.apiUrl # "" /\ cfg.webhookUrl # ""
    /\ wpc' = "recv"
    /\ b' = Reset(NewExponentialBackOff)
    /\ pc' = "operation"
    /\ UNCHANGED <<cfg, partial, status, rmsg, wmsg, timer, metrics, runErr, exitCode, lines,
                   sent, taken, handled, posts, notified, calls, wErrors,
                   linesLeft, callsLeft>>

\* RetryNotify after a transient error of operation(): NextBackOff, then
\* either return the error (Stop) or notify and start the timer
retryNextBackOff ==
    /\ pc = "failed"
    /\ \E random \in RandomSamples :
          LET r == NextBackOff(b, random)
          IN  /\ b' = r.bo
              /\ IF r.delay = Stop
                 THEN /\ runErr' = TransientError
                      /\ pc' = "returned"
                      /\ UNCHANGED <<timer, notified>>
                 ELSE /\ notified' = Append(notified,
                                            [delay |-> r.delay,
                                             interval |-> b.currentInterval,
                                             seen |-> Len(lines)])
                      /\ timer' = r.delay
                      /\ pc' = "wait"
                      /\ UNCHANGED runErr
    /\ UNCHANGED <<cfg, partial, status, wpc, rmsg, wmsg, metrics, exitCode, lines, sent,
                   taken, handled, posts, calls, wErrors, linesLeft, callsLeft>>

\* RetryNotify: <-t.C() after t.Start(next)
retryWait ==
    /\ pc = "wait"
    /\ b' = Advance(b, timer)
    /\ timer' = 0
    /\ pc' = "operation"
    /\ UNCHANGED <<cfg, partial, status, wpc, rmsg, wmsg, metrics, runErr, exitCode, lines,
                   sent, taken, handled, posts, notified, calls, wErrors,
                   linesLeft, callsLeft>>

\* main: run returned an error, os.Exit(1)
mainExit ==
    /\ pc = "returned"
    /\ exitCode' = IF runErr # "" THEN 1 ELSE 0
    /\ pc' = "exited"
    /\ UNCHANGED <<cfg, partial, status, wpc, rmsg, wmsg, b, timer, metrics, runErr, lines,
                   sent, taken, handled, posts, notified, calls, wErrors,
                   linesLeft, callsLeft>>

-----------------------------------------------------------------------------
(* getMessages.                                                            *)

\* the URL error is returned without backoff.Permanent
getMessagesPermanentRetried ==
    /\ pc = "operation"
    /\ callsLeft > 0
    /\ ParseFails(cfg.apiUrl)
    /\ calls' = calls + 1
    /\ callsLeft' = callsLeft - 1
    /\ pc' = "failed"
    /\ UNCHANGED <<cfg, partial, status, wpc, rmsg, wmsg, b, timer, metrics,
                   runErr, exitCode, lines, sent, taken, handled, posts,
                   notified, wErrors, linesLeft>>

\* url.JoinPath or http.NewRequest fails: backoff.Permanent, which
\* RetryNotify returns at once, and run returns it
getMessagesPermanent ==
    /\ pc = "operation"
    /\ callsLeft > 0
    /\ ParseFails(cfg.apiUrl)
    /\ calls' = calls + 1
    /\ callsLeft' = callsLeft - 1
    /\ runErr' = PermanentError
    /\ pc' = "returned"
    /\ UNCHANGED <<cfg, partial, status, wpc, rmsg, wmsg, b, timer, metrics, exitCode, lines,
                   sent, taken, handled, posts, notified, wErrors, linesLeft>>

\* http.DefaultClient.Do(req): a transport error is returned as it is
\* (transient), otherwise the read loop starts
getMessagesConnect ==
    /\ pc = "operation"
    /\ callsLeft > 0
    /\ ~ParseFails(cfg.apiUrl)
    /\ calls' = calls + 1
    /\ callsLeft' = callsLeft - 1
    /\ \E ok \in BOOLEAN, d \in OpDurations :
          /\ b' = Advance(b, d)
          /\ pc' = IF ok THEN "read" ELSE "failed"
    /\ UNCHANGED <<cfg, partial, status, wpc, rmsg, wmsg, timer, metrics, runErr, exitCode,
                   lines, sent, taken, handled, posts, notified, wErrors,
                   linesLeft>>

\* an event record resets the backoff as a chat message does
getMessagesLineResetsOnEvent ==
    /\ pc = "read"
    /\ linesLeft > 0
    /\ linesLeft' = linesLeft - 1
    /\ \E line \in StreamLines :
          LET msg == Unmarshal(line)
          IN  /\ lines' = Append(lines, line)
              /\ IF UnmarshalFails(line)
                 THEN /\ metrics' = [metrics EXCEPT !.processingError = @ + 1]
                      /\ b' = b
                      /\ UNCHANGED <<pc, rmsg, sent>>
                 ELSE IF IsEvent(msg)
                 THEN /\ b' = Reset(b)
                      /\ UNCHANGED <<pc, rmsg, sent, metrics>>
                 ELSE /\ rmsg' = msg
                      /\ sent' = Append(sent, msg)
                      /\ pc' = "send"
                      /\ b' = b
                      /\ UNCHANGED metrics
    /\ UNCHANGED <<cfg, partial, status, wpc, wmsg, timer, runErr, exitCode, taken, handled,
                   posts, notified, calls, wErrors, callsLeft>>

\* one turn of the read loop on a line that ends with a newline (the time
\* ReadBytes blocks is accounted for by the read that ends the stream)
getMessagesLine ==
    /\ pc = "read"
    /\ linesLeft > 0
    /\ linesLeft' = linesLeft - 1
    /\ \E line \in StreamLines :
          LET msg == Unmarshal(line)
          IN  /\ lines' = Append(lines, line)
              /\ IF UnmarshalFails(line)
                 THEN /\ metrics' = [metrics EXCEPT !.processingError = @ + 1]
                      /\ UNCHANGED <<pc, rmsg, sent>>
                 ELSE IF IsEvent(msg)
                 THEN UNCHANGED <<pc, rmsg, sent, metrics>>
                 ELSE /\ rmsg' = msg
                      /\ sent' = Append(sent, msg)
                      /\ pc' = "send"
                      /\ UNCHANGED metrics
    /\ UNCHANGED <<cfg, partial, status, wpc, wmsg, b, timer, runErr, exitCode, taken, handled,
                   posts, notified, calls, wErrors, callsLeft>>

\* the read error also interrupts a send the worker has not yet accepted
getMessagesReadErrorAbandonsSend ==
    /\ pc \in {"read", "send"}
    /\ \E data \in PartialData, d \in OpDurations :
          /\ partial' = data
          /\ b' = Advance(b, d)
    /\ pc' = "failed"
    /\ UNCHANGED <<cfg, status, wpc, rmsg, wmsg, timer, metrics, runErr, exitCode,
                   lines, sent, taken, handled, posts, notified, calls, wErrors, linesLeft, callsLeft>>

\* the bytes read before the error are decoded before the error is
\* looked at: a cut-off record counts as a processing error
getMessagesReadErrorCountsPartial ==
    /\ pc = "read"
    /\ \E data \in PartialData, d \in OpDurations :
          /\ partial' = data
          /\ b' = Advance(b, d)
          /\ metrics' = IF data = NoData THEN metrics
                        ELSE [metrics EXCEPT !.processingError = @ + 1]
    /\ pc' = "failed"
    /\ UNCHANGED <<cfg, status, wpc, rmsg, wmsg, timer, runErr, exitCode,
                   lines, sent, taken, handled, posts, notified, calls, wErrors, linesLeft, callsLeft>>

\* ReadBytes returns an error (EOF, reset), with the bytes read since the
\* last newline: getMessages returns a transient error
getMessagesReadError ==
    /\ pc = "read"
    /\ \E data \in PartialData, d \in OpDurations :
          /\ partial' = data
          /\ b' = Advance(b, d)
    /\ pc' = "failed"
    /\ UNCHANGED <<cfg, status, wpc, rmsg, wmsg, timer, metrics, runErr, exitCode,
                   lines, sent, taken, handled, posts, notified, calls, wErrors,
                   linesLeft, callsLeft>>

\* the send does not wait for the worker to be at its receive
handOffNoWait ==
    /\ pc = "send"
    /\ wpc # "none"
    /\ wmsg' = rmsg
    /\ taken' = Append(taken, rmsg)
    /\ wpc' = "handle"
    /\ pc' = "sent"
    /\ UNCHANGED <<cfg, partial, status, rmsg, b, timer, metrics, runErr,
                   exitCode, lines, sent, handled, posts, notified, calls,
                   wErrors, linesLeft, callsLeft>>

\* the worker keeps the message it had: the receive is lost
handOffStale ==
    /\ pc = "send"
    /\ wpc = "recv"
    /\ taken' = Append(taken, rmsg)
    /\ wpc' = "handle"
    /\ pc' = "sent"
    /\ UNCHANGED <<cfg, partial, status, rmsg, wmsg, b, timer, metrics, runErr,
                   exitCode, lines, sent, handled, posts, notified, calls,
                   wErrors, linesLeft, callsLeft>>

\* c <- msg meets msg := <-c: the channel is unbuffered
handOff ==
    /\ pc = "send"
    /\ wpc = "recv"
    /\ wmsg' = rmsg
    /\ taken' = Append(taken, rmsg)
    /\ wpc' = "handle"
    /\ pc' = "sent"
    /\ UNCHANGED <<cfg, partial, status, rmsg, b, timer, metrics, runErr, exitCode, lines,
                   sent, handled, posts, notified, calls, wErrors, linesLeft,
                   callsLeft>>

\* after the send: messageReceived.Add(1); b.Reset()
getMessagesAfterSend ==
    /\ pc = "sent"
    /\ metrics' = [metrics EXCEPT !.messageReceived = @ + 1]
    /\ b' = Reset(b)
    /\ notified' = <<>>
    /\ pc' = "read"
    /\ UNCHANGED <<cfg, partial, status, wpc, rmsg, wmsg, timer, runErr, exitCode, lines, sent,
                   taken, handled, posts, calls, wErrors, linesLeft, callsLeft>>

-----------------------------------------------------------------------------
(* processMessages.                                                        *)

\* messagePrefix != "" && !strings.HasPrefix(msg.Text, messagePrefix)
Filtered(msg, messagePrefix) ==
    messagePrefix # EmptyString /\ ~HasPrefix(msg.text, messagePrefix)

\* the dropped message is not counted
processMessagesDropUncounted ==
    /\ Running
    /\ wpc = "handle"
    /\ Filtered(wmsg, cfg.messagePrefix)
    /\ handled' = Append(handled, [idx |-> Len(taken), outcome |-> "dropped"])
    /\ wpc' = "recv"
    /\ UNCHANGED <<cfg, partial, status, pc, rmsg, wmsg, b, timer, metrics,
                   runErr, exitCode, lines, sent, taken, posts, notified,
                   calls, wErrors, linesLeft, callsLeft>>

\* the message is dropped: messageDropped.Add(1); continue
processMessagesDrop ==
    /\ Running
    /\ wpc = "handle"
    /\ Filtered(wmsg, cfg.messagePrefix)
    /\ metrics' = [metrics EXCEPT !.messageDropped = @ + 1]
    /\ handled' = Append(handled, [idx |-> Len(taken), outcome |-> "dropped"])
    /\ wpc' = "recv"
    /\ UNCHANGED <<cfg, partial, status, pc, rmsg, wmsg, b, timer, runErr, exitCode, lines,
                   sent, taken, posts, notified, calls, wErrors, linesLeft,
                   callsLeft>>

\* json.Marshal and http.NewRequest: on an error processingError.Add(1);
\* continue.  Otherwise the request goes to http.DefaultClient.Do
processMessagesRequest ==
    /\ Running
    /\ wpc = "handle"
    /\ ~Filtered(wmsg, cfg.messagePrefix)
    /\ IF MarshalFails(wmsg) \/ ParseFails(cfg.webhookUrl)
       THEN /\ metrics' = [metrics EXCEPT !.processingError = @ + 1]
            /\ wErrors' = wErrors + 1
            /\ handled' = Append(handled,
                   [idx |-> Len(taken),
                    outcome |-> IF MarshalFails(wmsg) THEN "marshal error"
                                ELSE "request error"])
            /\ wpc' = "recv"
            /\ UNCHANGED posts
       ELSE /\ posts' = Append(posts,
                   [idx |-> Len(taken), url |-> cfg.webhookUrl,
                    body |-> Marshal(wmsg)])
            /\ wpc' = "do"
            /\ UNCHANGED <<metrics, wErrors, handled>>
    /\ UNCHANGED <<cfg, partial, status, pc, rmsg, wmsg, b, timer, runErr, exitCode, lines,
                   sent, taken, notified, calls, linesLeft, callsLeft>>

\* a failed send is tried again with the same message
processMessagesResponseRetry ==
    /\ Running
    /\ wpc = "do"
    /\ \E result \in {"transport error", "status 200", "status 500"} :
          IF result = "transport error"
          THEN /\ metrics' = [metrics EXCEPT !.processingError = @ + 1]
               /\ wErrors' = wErrors + 1
               /\ wpc' = "handle"
               /\ UNCHANGED handled
               /\ status' = result
          ELSE /\ metrics' = [metrics EXCEPT !.messageForwarded = @ + 1]
               /\ handled' = Append(handled,
                      [idx |-> Len(taken), outcome |-> "forwarded"])
               /\ wpc' = "recv"
               /\ status' = result
               /\ UNCHANGED wErrors
    /\ UNCHANGED <<cfg, partial, pc, rmsg, wmsg, b, timer, runErr, exitCode,
                   lines, sent, taken, posts, notified, calls, linesLeft,
                   callsLeft>>

\* a failed send ends the worker
processMessagesResponseFatal ==
    /\ Running
    /\ wpc = "do"
    /\ \E result \in {"transport error", "status 200", "status 500"} :
          IF result = "transport error"
          THEN /\ metrics' = [metrics EXCEPT !.processingError = @ + 1]
               /\ wErrors' = wErrors + 1
               /\ handled' = Append(handled,
                      [idx |-> Len(taken), outcome |-> "send error"])
               /\ wpc' = "none"
               /\ status' = result
          ELSE /\ metrics' = [metrics EXCEPT !.messageForwarded = @ + 1]
               /\ handled' = Append(handled,
                      [idx |-> Len(taken), outcome |-> "forwarded"])
               /\ wpc' = "recv"
               /\ status' = result
               /\ UNCHANGED wErrors
    /\ UNCHANGED <<cfg, partial, pc, rmsg, wmsg, b, timer, runErr, exitCode,
                   lines, sent, taken, posts, notified, calls, linesLeft,
                   callsLeft>>

\* a response with an error status is treated as a failed send
processMessagesResponseChecksStatus ==
    /\ Running
    /\ wpc = "do"
    /\ \E result \in {"transport error", "status 200", "status 500"} :
          IF result # "status 200"
          THEN /\ metrics' = [metrics EXCEPT !.processingError = @ + 1]
               /\ wErrors' = wErrors + 1
               /\ handled' = Append(handled,
                      [idx |-> Len(taken), outcome |-> "send error"])
               /\ status' = result
          ELSE /\ metrics' = [metrics EXCEPT !.messageForwarded = @ + 1]
               /\ handled' = Append(handled,
                      [idx |-> Len(taken), outcome |-> "forwarded"])
               /\ status' = result
               /\ UNCHANGED wErrors
    /\ wpc' = "recv"
    /\ UNCHANGED <<cfg, partial, pc, rmsg, wmsg, b, timer, runErr, exitCode,
                   lines, sent, taken, posts, notified, calls, linesLeft,
                   callsLeft>>

\* http.DefaultClient.Do returns: an error counts as a processing error,
\* any response (whatever its status) as forwarded
processMessagesResponse ==
    /\ Running
    /\ wpc = "do"
    /\ \E result \in {"transport error", "status 200", "status 500"} :
          IF result = "transport error"
          THEN /\ metrics' = [metrics EXCEPT !.processingError = @ + 1]
               /\ wErrors' = wErrors + 1
               /\ handled' = Append(handled,
                      [idx |-> Len(taken), outcome |-> "send error"])
               /\ status' = result
          ELSE /\ metrics' = [metrics EXCEPT !.messageForwarded = @ + 1]
               /\ handled' = Append(handled,
                      [idx |-> Len(taken), outcome |-> "forwarded"])
               /\ status' = result
               /\ UNCHANGED wErrors
    /\ wpc' = "recv"
    /\ UNCHANGED <<cfg, partial, pc, rmsg, wmsg, b, timer, runErr, exitCode, lines,
                   sent, taken, posts, notified, calls, linesLeft, callsLeft>>

-----------------------------------------------------------------------------
(* The specifications.                                                     *)

Next ==
    \/ runConfigError
    \/ runTelemetryError
    \/ runStart
    \/ retryNextBackOff
    \/ retryWait
    \/ mainExit
    \/ getMessagesPermanent
    \/ getMessagesConnect
    \/ getMessagesLine
    \/ getMessagesReadError
    \/ handOff
    \/ getMessagesAfterSend
    \/ processMessagesDrop
    \/ processMessagesRequest
    \/ processMessagesResponse

\* the pipeline: every configuration, a few lines, a few connections
Spec == Init /\ [][Next]_vars

\* the supervisor alone: a source that never serves a line, many retries
BackoffConfigs ==
    {[apiUrl |-> GoodUrl, webhookUrl |-> GoodUrl, messagePrefix |-> EmptyString]}

InitBackoff == InitWith(BackoffConfigs, 0, MaxFailures)

NextBackoff ==
    \/ runStart
    \/ getMessagesConnect
    \/ getMessagesReadError
    \/ retryNextBackOff
    \/ retryWait
    \/ mainExit

SpecBackoff == InitBackoff /\ [][NextBackoff]_vars

-----------------------------------------------------------------------------
(* Vocabulary of the properties.                                           *)

\* s starts with p, character by character
StartsWith(s, p) ==
    /\ Len(p) <= Len(s)
    /\ \A i \in 1..Len(p) : s[i] = p[i]

\* the line is valid JSON whose "event" key holds a non-empty string
LineHasEvent(line) ==
    /\ line.valid
    /\ "event" \in DOMAIN line.obj
    /\ line.obj["event"] # EmptyString

\* the line is a chat message
IsChatLine(line) == line.valid /\ ~LineHasEvent(line)

\* the chat messages of the lines read so far, in order
ChatMessages ==
    LET chat == SelectSeq(lines, IsChatLine)
    IN  [i \in 1..Len(chat) |-> Unmarshal(chat[i])]

\* the POSTs issued for the i-th message the worker received
PostsOf(i) == {j \in DOMAIN posts : posts[j].idx = i}

ErrorOutcomes == {"marshal error", "request error", "send error"}


-----------------------------------------------------------------------------
(* C1: with no prefix configured and no failed encode, build or send, the  *)
(* POSTs issued are the decoded chat messages, each as a one-element       *)
(* array, in the order decoded: none skipped, duplicated or reordered.     *)
(* At most one message is still with the reader and one with the worker.   *)
C1_PostsInOrder ==
    (cfg.messagePrefix = EmptyString /\ wErrors = 0) =>
        /\ sent = ChatMessages
        /\ Len(posts) <= Len(sent)
        /\ \A i \in DOMAIN posts : posts[i].body = <<sent[i]>>
        /\ Len(taken) >= Len(sent) - (IF pc = "send" THEN 1 ELSE 0)
        /\ Len(posts) >= Len(taken) - (IF wpc = "handle" THEN 1 ELSE 0)

\* two different messages, decoded on two connections,
\* both posted
C1_Witness ==
    /\ cfg.messagePrefix = EmptyString
    /\ wErrors = 0
    /\ calls >= 2
    /\ Len(sent) >= 2
    /\ Len(posts) = Len(sent)
    /\ posts[1].body # posts[2].body
    /\ wpc = "recv"

-----------------------------------------------------------------------------
(* C2: run never returns because of transient errors of getMessages:      *)
(* however many there were and however long ago the backoff was reset,     *)
(* the supervisor waits and calls getMessages again.                       *)
C2_TransientNeverReturns ==
    ~(pc \in {"returned", "exited"} /\ runErr = TransientError)

-----------------------------------------------------------------------------
(* C3: a record with a non-empty event is never offered on the channel,    *)
(* never posted and never counted as received, and the reader goes on      *)
(* with the next line.                                                     *)
C3_EventStep ==
    (/\ Len(lines') = Len(lines) + 1
     /\ LineHasEvent(lines'[Len(lines')])) =>
        /\ pc' = "read"
        /\ sent' = sent
        /\ taken' = taken
        /\ posts' = posts
        /\ metrics' = metrics
        /\ b' = b

C3_EventsNotForwarded ==
    /\ [](/\ \A i \in DOMAIN sent : sent[i].event = EmptyString
          /\ \A i \in DOMAIN taken : taken[i].event = EmptyString
          /\ \A i \in DOMAIN posts : posts[i].body[1].event = EmptyString
          /\ Len(sent) = Len(SelectSeq(lines, IsChatLine))
          /\ metrics.messageReceived <= Len(sent))
    /\ [][C3_EventStep]_vars

\* an event was read, then a chat message, and only the latter was posted
C3_Witness ==
    /\ Len(lines) >= 2
    /\ LineHasEvent(lines[1])
    /\ IsChatLine(lines[2])
    /\ Len(sent) = 1
    /\ Len(posts) = 1
    /\ metrics.messageReceived = 1

-----------------------------------------------------------------------------
(* C4.  The filter decision of every message the worker finished.          *)

\* the text of the i-th received message passes the configured prefix
Admitted(i) ==
    cfg.messagePrefix = EmptyString \/ StartsWith(taken[i].text, cfg.messagePrefix)

RequestFailed(i) == \E k \in DOMAIN handled :
                       /\ handled[k].idx = i
                       /\ handled[k].outcome \in {"marshal error", "request error"}

\* C4 as claimed: a finished message was posted if and only if its text
\* starts with the prefix (always, when the prefix is empty), and otherwise
\* it was counted as dropped
C4_AsClaimed ==
    \A k \in DOMAIN handled :
        LET i == handled[k].idx
        IN  /\ (PostsOf(i) # {}) <=> Admitted(i)
            /\ ~Admitted(i) => handled[k].outcome = "dropped"

\* C4 amended: a finished message was counted as dropped, once, and not
\* posted if and only if the prefix is non-empty and its text does not start
\* with it; a message that passes the filter was posted unless encoding it
\* or building the request failed.  Nothing but the text and the prefix
\* enters the filter decision.
C4_FilterDecision ==
    /\ \A k \in DOMAIN handled :
          LET i == handled[k].idx
          IN  /\ (handled[k].outcome = "dropped") <=> ~Admitted(i)
              /\ ~Admitted(i) => PostsOf(i) = {}
              /\ Admitted(i) => ((PostsOf(i) # {}) <=> ~RequestFailed(i))
    /\ metrics.messageDropped =
          Cardinality({k \in DOMAIN handled : handled[k].outcome = "dropped"})

\* with a prefix configured: one message dropped, a later one forwarded
\* after it, and both texts were seen
C4_Witness ==
    /\ cfg.messagePrefix # EmptyString
    /\ \E j, k \in DOMAIN handled :
          /\ j < k
          /\ handled[j].outcome = "dropped"
          /\ handled[k].outcome = "forwarded"
    /\ metrics.messageDropped >= 1

-----------------------------------------------------------------------------
(* C5: after a chat message was handed over and b.Reset() called, the      *)
(* next transient failure draws its delay from the initial interval,       *)
(* whatever was escalated before.  notified is emptied by that Reset.      *)
C5_ResetRestartsBackoff ==
    /\ (pc = "failed" /\ notified = <<>>) =>
          b.currentInterval = DefaultInitialInterval
    /\ notified # <<>> =>
          /\ notified[1].interval = DefaultInitialInterval
          /\ 2 * notified[1].delay >= DefaultInitialInterval
          /\ 2 * notified[1].delay <= 3 * DefaultInitialInterval

\* the first call failed and escalated the interval, the second call
\* handed over a message and then failed: one delay since the Reset
C5_Witness ==
    /\ calls = 2
    /\ metrics.messageReceived >= 1
    /\ pc = "wait"
    /\ Len(notified) = 1

-----------------------------------------------------------------------------
(* C6.  The delays of consecutive failures with no chat message between.   *)

\* C6 as claimed: each delay is strictly greater than the one before until
\* the maximum is reached, and no delay exceeds the maximum
C6_AsClaimed ==
    /\ \A i \in DOMAIN notified : notified[i].delay <= DefaultMaxInterval
    /\ \A i \in DOMAIN notified :
          (i > 1 /\ notified[i - 1].delay < DefaultMaxInterval) =>
              notified[i].delay > notified[i - 1].delay

\* C6 amended: the interval each delay is drawn from is strictly greater
\* than that of the retry before until it has reached the maximum interval,
\* where it stays, and never exceeds it; the delay itself is random within
\* half of that interval below and above it, so it can be smaller than the
\* delay before and can exceed the maximum interval by up to one half.
C6_IntervalGrowsToCap ==
    /\ \A i \in DOMAIN notified :
          /\ notified[i].interval <= DefaultMaxInterval
          /\ notified[i].delay >= notified[i].interval \div 2
          /\ notified[i].delay <= (3 * notified[i].interval) \div 2
    /\ \A i \in DOMAIN notified :
          i > 1 =>
              IF notified[i - 1].interval < DefaultMaxInterval
              THEN notified[i].interval > notified[i - 1].interval
              ELSE notified[i].interval = DefaultMaxInterval

\* the interval has reached the maximum, a delay beyond the maximum was
\* waited for, and an earlier delay was shorter than the one before it
C6_Witness ==
    /\ Len(notified) >= 13
    /\ notified[Len(notified)].interval = DefaultMaxInterval
    /\ notified[Len(notified)].delay > DefaultMaxInterval
    /\ notified[2].delay < notified[1].delay
    /\ notified[2].interval > notified[1].interval

-----------------------------------------------------------------------------
(* C7: a line that fails to decode adds one to processingError and is      *)
(* skipped: getMessages does not return, no new connection is made, and    *)
(* the chat messages of the lines read, before and after it, are exactly   *)
(* the messages offered on the channel, in order.                          *)
C7_BadLineStep ==
    (/\ Len(lines') = Len(lines) + 1
     /\ ~lines'[Len(lines')].valid) =>
        /\ metrics' = [metrics EXCEPT !.processingError = @ + 1]
        /\ pc = "read" /\ pc' = "read"
        /\ calls' = calls
        /\ sent' = sent
        /\ runErr' = runErr

C7_BadLineSkipped ==
    /\ [](/\ sent = ChatMessages
          /\ taken = SubSeq(sent, 1, Len(taken))
          /\ Len(taken) >= Len(sent) - (IF pc = "send" THEN 1 ELSE 0))
    /\ [][C7_BadLineStep]_vars

\* one connection served a chat message, a bad line and a chat message:
\* both messages reached the worker, one error was counted
C7_Witness ==
    /\ calls = 1
    /\ Len(lines) = 3
    /\ IsChatLine(lines[1]) /\ ~lines[2].valid /\ IsChatLine(lines[3])
    /\ taken = <<Unmarshal(lines[1]), Unmarshal(lines[3])>>
    /\ metrics.processingError - wErrors = 1

-----------------------------------------------------------------------------
(* C8: every message the worker received gets at most one POST attempt:    *)
(* it leaves the channel once, is finished once, and after a failure it    *)
(* is neither posted again nor offered on the channel again.               *)
C8_AtMostOnePost ==
    /\ \A i \in DOMAIN taken : Cardinality(PostsOf(i)) <= 1
    /\ \A j \in DOMAIN posts : posts[j].idx \in DOMAIN taken
    /\ \A k \in DOMAIN handled : handled[k].idx = k
    /\ Len(handled) >= Len(taken) - 1
    /\ taken = SubSeq(sent, 1, Len(taken))
    /\ Len(sent) = Len(SelectSeq(lines, IsChatLine))

\* a send failed, and the worker has finished the message after it as well
C8_Witness ==
    /\ Len(handled) >= 2
    /\ handled[1].outcome = "send error"
    /\ Cardinality(PostsOf(1)) = 1
    /\ Len(sent) = Len(handled)

-----------------------------------------------------------------------------
(* C9: a failed encode, request construction or send of one message adds   *)
(* exactly one to processingError, leaves the other counters alone, and    *)
(* leaves worker and process running: the worker is receiving again and    *)
(* takes the next message the reader offers.                               *)
C9_FailureStep ==
    (/\ Len(handled') = Len(handled) + 1
     /\ handled'[Len(handled')].outcome \in ErrorOutcomes) =>
        /\ metrics' = [metrics EXCEPT !.processingError = @ + 1]
        /\ wpc' = "recv"
        /\ pc' = pc
        /\ runErr' = runErr
        /\ exitCode' = -1

C9_FailureIsolated == [][C9_FailureStep]_vars

\* the first message failed, the second was received and finished after it
C9_Witness ==
    /\ Len(handled) >= 2
    /\ handled[1].outcome \in ErrorOutcomes
    /\ handled[2].outcome = "forwarded"
    /\ wErrors = 1
    /\ metrics.messageForwarded = 1
    /\ wpc = "recv"
    /\ Running

-----------------------------------------------------------------------------
(* C10: a permanent error of getMessages (the URL cannot be built) ends    *)
(* run with an error at once: no delay is computed or waited for, no       *)
(* second call of getMessages is made, and the process exits with a        *)
(* non-zero code.                                                          *)
C10_PermanentIsFatal ==
    (cfg.apiUrl = BadUrl /\ calls >= 1) =>
        /\ calls = 1
        /\ pc \in {"returned", "exited"}
        /\ runErr = PermanentError
        /\ notified = <<>>
        /\ timer = 0
        /\ b = NewExponentialBackOff
        /\ lines = <<>>
        /\ pc = "exited" => exitCode = 1

\* the URL could not be built and the process has exited with code 1
C10_Witness ==
    /\ cfg.apiUrl = BadUrl
    /\ calls = 1
    /\ pc = "exited"
    /\ exitCode = 1
    /\ runErr = PermanentError

-----------------------------------------------------------------------------
(* C11: with the source URL or the webhook URL empty, run returns the      *)
(* configuration error before anything starts: the worker goroutine is     *)
(* never started, nothing is ever offered on a channel, no backoff is      *)
(* made, getMessages is never called, nothing is posted, and the process   *)
(* exits with a non-zero code.                                             *)
C11_MissingUrlIsFatal ==
    (cfg.apiUrl = "" \/ cfg.webhookUrl = "") =>
        /\ pc \in {"run", "returned", "exited"}
        /\ wpc = "none"
        /\ calls = 0
        /\ b.currentInterval = 0
        /\ sent = <<>> /\ taken = <<>> /\ posts = <<>> /\ lines = <<>>
        /\ metrics = ZeroMetrics
        /\ pc # "run" => runErr = ConfigError
        /\ pc = "exited" => exitCode = 1

\* only the webhook URL is missing, and the process has exited with code 1
C11_Witness ==
    /\ cfg.apiUrl = GoodUrl
    /\ cfg.webhookUrl = ""
    /\ pc = "exited"
    /\ exitCode = 1
    /\ runErr = ConfigError

-----------------------------------------------------------------------------
(* C12: every POST body is an array of exactly one message, and that       *)
(* message is, field by field, what getMessages decoded from a stream      *)
(* line with an empty event: the hand-off, the filter and the encoding     *)
(* change no field.                                                        *)
C12_BodyIsDecodedMessage ==
    /\ sent = ChatMessages
    /\ \A j \in DOMAIN posts :
          LET i == posts[j].idx
          IN  /\ Len(posts[j].body) = 1
              /\ i \in DOMAIN sent
              /\ DOMAIN posts[j].body[1] = MessageFields
              /\ \A k \in MessageFields : posts[j].body[1][k] = sent[i][k]
              /\ sent[i].event = EmptyString
    /\ \A i \in DOMAIN taken : taken[i] = sent[i]
    /\ wpc \in {"handle", "do"} => wmsg = sent[Len(taken)]

\* two messages were posted: one with a username, one whose text was
\* decoded from a line with a byte that is not valid UTF-8
C12_Witness ==
    /\ cfg.messagePrefix = EmptyString
    /\ \E j \in DOMAIN posts :
          /\ posts[j].body[1].text = <<"b", ReplacementChar>>
          /\ posts[j].body[1].username = EmptyString
    /\ \E j \in DOMAIN posts :
          /\ posts[j].body[1].text = <<"!", "a">>
          /\ posts[j].body[1].username = <<"u">>

-----------------------------------------------------------------------------
(* C13: messageForwarded is incremented exactly when the webhook call      *)
(* returns without a transport error, whatever the status of the           *)
(* response: a call answered with an error status counts as forwarded      *)
(* and adds nothing to processingError.                                    *)
C13_ResponseStep ==
    /\ (wpc = "do" /\ wpc' # "do") =>
          IF status' = "transport error"
          THEN metrics' = [metrics EXCEPT !.processingError = @ + 1]
          ELSE /\ status' \in {"status 200", "status 500"}
               /\ metrics' = [metrics EXCEPT !.messageForwarded = @ + 1]
    /\ metrics'.messageForwarded # metrics.messageForwarded =>
          (wpc = "do" /\ wpc' # "do" /\ status' # "transport error")

C13_ForwardedIgnoresStatus == [][C13_ResponseStep]_vars

\* the only call made was answered with status 500: one message
\* forwarded, no processing error
C13_Witness ==
    /\ status = "status 500"
    /\ Len(posts) = 1
    /\ handled = <<[idx |-> 1, outcome |-> "forwarded"]>>
    /\ metrics.messageForwarded = 1
    /\ metrics.processingError = 0

-----------------------------------------------------------------------------
(* C14: the hand-off is synchronous.  A message offered on the channel is  *)
(* not yet received exactly while the reader is blocked in its send, and   *)
(* the reader reads no line while it is; a received message is unfinished  *)
(* exactly while the worker handles it.  So at most two messages are in    *)
(* flight: one in the reader's send, one with the worker.                  *)
C14_ReadStep ==
    lines' # lines =>
        /\ pc = "read"
        /\ Len(taken) = Len(sent)

C14_SynchronousHandOff ==
    /\ [](/\ Len(sent) - Len(taken) = (IF pc = "send" THEN 1 ELSE 0)
          /\ Len(taken) - Len(handled) =
                (IF wpc \in {"handle", "do"} THEN 1 ELSE 0)
          /\ Len(sent) - Len(handled) <= 2
          /\ pc = "send" => rmsg = sent[Len(sent)])
    /\ [][C14_ReadStep]_vars

\* the worker is inside the webhook call and the reader is blocked with
\* the next message: two in flight
C14_Witness ==
    /\ wpc = "do"
    /\ pc = "send"
    /\ Len(sent) - Len(handled) = 2
    /\ rmsg # wmsg

-----------------------------------------------------------------------------
(* C15: every chat message the reader starts to send is accepted by the    *)
(* worker and ends in one outcome (forwarded, dropped or processing        *)
(* error).  As a final result: once the process has exited nothing can     *)
(* finish a message any more, so every message offered on the channel      *)
(* has its outcome by then.                                                *)
C15_EveryMessageGetsOutcome ==
    pc = "exited" =>
        /\ Len(taken) = Len(sent)
        /\ Len(handled) = Len(sent)

-----------------------------------------------------------------------------
(* C16: counter conservation.  Finishing a message adds one to exactly     *)
(* one of messageForwarded, messageDropped and processingError, and        *)
(* nothing to messageReceived.  processingError is also incremented by     *)
(* the reader, once per undecodable line; the rest are the worker's.       *)
(* Forwarded + dropped + worker errors is at most received + 1, and        *)
(* equals received when the reader is not between its send and its         *)
(* increment and the worker is idle.                                       *)

\* the processing errors counted by the worker
WorkerErrors ==
    metrics.processingError - Len(SelectSeq(lines, LAMBDA l : ~l.valid))

Finished == metrics.messageForwarded + metrics.messageDropped + WorkerErrors

C16_FinishStep ==
    /\ Len(handled') = Len(handled) + 1 =>
          \/ metrics' = [metrics EXCEPT !.messageForwarded = @ + 1]
          \/ metrics' = [metrics EXCEPT !.messageDropped = @ + 1]
          \/ metrics' = [metrics EXCEPT !.processingError = @ + 1]
    /\ metrics'.messageReceived # metrics.messageReceived =>
          /\ pc = "sent"
          /\ metrics'.messageReceived = Len(taken)

C16_CounterConservation ==
    /\ [](/\ WorkerErrors = wErrors
          /\ Finished = Len(handled)
          /\ Finished <= metrics.messageReceived + 1
          /\ (pc # "sent" /\ wpc \notin {"handle", "do"}) =>
                Finished = metrics.messageReceived)
    /\ [][C16_FinishStep]_vars

\* the worker has finished the second message before the reader counted
\* it, and each of the three counters took part
C16_Witness ==
    /\ pc = "sent"
    /\ wpc = "recv"
    /\ Finished = metrics.messageReceived + 1
    /\ metrics.messageReceived >= 1
    /\ metrics.messageDropped >= 1
    /\ metrics.processingError >= 1

-----------------------------------------------------------------------------
(* C17: whenever getMessages is not running (before a call, after it has   *)
(* failed, during the wait, after run has returned) no message is pending  *)
(* on the channel: every chat message decoded so far, on whichever         *)
(* connection, has been accepted by the worker, once and in order, and     *)
(* counted as received.  Starting a new connection leaves the worker and   *)
(* the channel as they are.                                                *)

OutsideGetMessages == pc \in {"operation", "failed", "wait", "returned", "exited"}

C17_ConnectStep ==
    calls' # calls =>
        /\ wpc # "none"
        /\ <<wpc', wmsg', sent', taken', handled'>> =
               <<wpc, wmsg, sent, taken, handled>>

C17_NothingPendingAtReturn ==
    /\ [](OutsideGetMessages =>
            /\ sent = ChatMessages
            /\ taken = sent
            /\ metrics.messageReceived = Len(sent))
    /\ [][C17_ConnectStep]_vars

\* the second connection has broken after delivering a chat message; the
\* worker, which took a message on the first connection too, is still
\* inside the webhook call for it
C17_Witness ==
    /\ pc = "failed"
    /\ calls = 2
    /\ notified = <<>>
    /\ Len(sent) = 2
    /\ Len(handled) = 1
    /\ wpc = "do"

-----------------------------------------------------------------------------
(* C18: the backoff is reset only after a chat message was accepted by    *)
(* the worker.  Reading a line, whatever it holds, leaves the backoff      *)
(* state as it is; the interval and the start time go back only in the     *)
(* step after the send.  So the failures notified since the last accepted  *)
(* message escalate without a break, also across connections that          *)
(* delivered events or undecodable lines.                                  *)

C18_BackoffStep ==
    /\ lines' # lines => b' = b
    /\ (b'.currentInterval < b.currentInterval \/ b'.elapsed < b.elapsed) =>
          /\ pc = "sent"
          /\ taken = sent
          /\ b' = Reset(b)

C18_OnlyAcceptedMessageResets ==
    /\ [](\A i \in DOMAIN notified :
            i > 1 => notified[i].interval =
                        incrementCurrentInterval(notified[i - 1].interval))
    /\ [][C18_BackoffStep]_vars

\* the second connection delivered an event record and an undecodable
\* line and broke: the delay that follows is drawn from the escalated
\* interval
C18_Witness ==
    /\ calls = 2
    /\ sent = <<>>
    /\ Len(notified) = 2
    /\ notified[2].seen = notified[1].seen + 2
    /\ \E i, k \in DOMAIN lines :
          /\ i > notified[1].seen
          /\ k > notified[1].seen
          /\ LineHasEvent(lines[i])
          /\ ~lines[k].valid
    /\ notified[2].interval > DefaultInitialInterval
    /\ pc = "wait"

-----------------------------------------------------------------------------
(* C19: only newline-terminated records are processed.  When the read      *)
(* ends with an error, the bytes after the last newline are not decoded:   *)
(* that step enqueues nothing and changes no counter, and getMessages      *)
(* returns the transient error.  So the messages offered on the channel    *)
(* are exactly the chat messages of the complete lines, and the reader's   *)
(* processing errors exactly the undecodable complete lines.               *)

C19_ReadErrorStep ==
    (pc = "read" /\ pc' = "failed") =>
        /\ <<lines', sent', taken', metrics', posts', handled', rmsg'>> =
               <<lines, sent, taken, metrics, posts, handled, rmsg>>
        /\ runErr' = runErr

C19_PartialRecordIgnored ==
    /\ [](/\ sent = ChatMessages
          /\ metrics.messageReceived <= Len(sent)
          /\ metrics.processingError - wErrors =
                Len(SelectSeq(lines, LAMBDA l : ~l.valid))
          /\ Len(posts) <= Len(sent))
    /\ [][C19_ReadErrorStep]_vars

\* the stream broke after the bytes of a chat message without the
\* newline: nothing was enqueued, counted or posted
C19_Witness ==
    /\ pc = "failed"
    /\ partial = ChatBang
    /\ lines = <<>>
    /\ sent = <<>>
    /\ posts = <<>>
    /\ metrics = ZeroMetrics
    /\ wpc = "recv"

====
